---- MODULE Spec2Model ----
(***************************************************************************)
(* Verification model of velt-babylonjs-demo: the Babylon.js <-> Velt      *)
(* comment bridge.                                                         *)
(*                                                                         *)
(*  - Spec        anchor capture and delivery                              *)
(*                (useVeltCreateCommentAnchors / useVeltBabylonComments)   *)
(*  - SpecResolve the pin resolver (rebuiltPins useMemo)                   *)
(*  - SpecFrame   marker rebuild and per-frame reprojection                *)
(*                (VeltBabylonComments.tsx)                                *)
(*                                                                         *)
(* React scheduling: a state/prop change renders synchronously; the        *)
(* passive effects of that render are queued (pendingEffects) and run      *)
(* later in one batch (FlushEffects). React flushes the queue before it    *)
(* renders again, so a render is enabled only once the queue is empty.     *)
(***************************************************************************)
EXTENDS Integers, Sequences, FiniteSets, TLC

VARIABLES
    \* ---- anchor capture (Spec) ----
    hook,                \* which capture hook is mounted
    sceneId,             \* prop sceneId
    commentModeState,    \* useCommentModeState() as of the last render
    commentModeStateRef, \* commentModeStateRef.current
    isPlayingRef,        \* isPlayingRef.current
    addHandler,          \* useCommentAddHandler() as of the last render
    clickedAnchorRef,    \* clickedAnchorRef.current
    pendingEffects,      \* passive effects queued by the last render
    ready,               \* BabylonScene's ready state
    pointerObservers,    \* observers registered on scene.onPointerObservable
    delivered,           \* payloads passed to addHandler.addContext, in order
    nextAnchorId,        \* stands for the identity/timestamp of the next anchor
    handlerGen,          \* identities of add handlers handed out so far
    renders,             \* handler/sceneId changes so far (bounded)
    captureLog,          \* history: for each anchor id, how it was captured
    refs,                \* which of sceneRef/engineRef/cameraRef/canvasRef are set
    lastEvent,           \* history (SpecPick): the last pointer event notified
    \* ---- pin resolver (SpecResolve, SpecFrame) ----
    scene,               \* sceneRef.current: NoScene, or scene.meshes (unique ids)
    meshObjs,            \* the mesh objects, by unique id
    resolveMesh,         \* the optional custom resolver prop
    allAnnotations,      \* useCommentAnnotations() as of the last render
    annotations,         \* useMemo: the annotations of this scene
    rebuiltPins,         \* useMemo: the resolved pins
    pinsScene,           \* history: sceneRef.current as read by the last rebuild
    \* ---- markers and reprojection (SpecFrame) ----
    markersRef,          \* markersRef.current: the marker records
    mounts,              \* the mount <div> elements: attached?, style
    projectionObservers, \* observers registered on scene.onBeforeRenderObservable
    camera,              \* the camera position (scene.getTransformMatrix())
    canvasSize,          \* engine render size and canvas bounding rect
    frameTick,           \* history: flips at every reprojection pass
    \* ---- mount / unmount of BabylonScene ----
    mounted,             \* BabylonScene (and the overlay in it) is mounted
    cleanups,            \* effect cleanups React still has to run, in its order
    renderLoop,          \* engine.runRenderLoop is active
    sceneDisposed        \* scene.dispose() / engine.dispose() were called

captureVars == <<hook, sceneId, commentModeState, commentModeStateRef, isPlayingRef,
                 addHandler, clickedAnchorRef, pendingEffects, ready,
                 pointerObservers, delivered, nextAnchorId, handlerGen, renders,
                 captureLog, refs, lastEvent>>

captureOnlyVars == <<hook, commentModeState, commentModeStateRef, isPlayingRef,
                     addHandler, clickedAnchorRef, pendingEffects, ready,
                     pointerObservers, delivered, nextAnchorId, handlerGen, renders,
                     captureLog, refs, lastEvent>>

resolveVars == <<scene, meshObjs, resolveMesh, allAnnotations, annotations,
                 rebuiltPins, pinsScene>>

markerVars == <<markersRef, mounts>>

lifeVars == <<mounted, cleanups, renderLoop, sceneDisposed>>

viewVars == <<projectionObservers, camera, canvasSize, frameTick, lifeVars>>

frameVars == <<markersRef, mounts, projectionObservers, camera, canvasSize, frameTick,
               lifeVars>>

----------------------------------------------------------------------------
\* Bounds of the model
MaxCaptures == 2
MaxRenders == 2
MaxAnnotations == 2

\* Values standing for null / undefined
NoHandler == 0
NoAnchor == [id |-> 0]
NoMesh == [id |-> "none"]
NoLocal == [meshId |-> "none"]
NoVec == [none |-> TRUE]
NoMeshRef == 0
NoScene == [present |-> FALSE, meshes |-> <<>>]
NoAnnotations == [loaded |-> FALSE, items |-> <<>>]
NoAnchorData == [none |-> TRUE]
NoResolver == [kind |-> "undefined"]

SceneIds == {"", "A", "B"}
Hooks == {"useVeltCreateCommentAnchors", "useVeltBabylonComments"}

----------------------------------------------------------------------------
\* Geometry (Babylon Vector3 / Matrix), on small integers

Vec(a, b, c) == [x |-> a, y |-> b, z |-> c]

\* A mesh world matrix: uniform scale s and a translation tx along x.
Mat(s, tx) == [s |-> s, tx |-> tx]

\* Vector3.TransformCoordinates(v, m)
TransformCoordinates(v, m) == Vec(m.s * v.x + m.tx, m.s * v.y, m.s * v.z)

\* Matrix.invert(): a singular matrix is left as it is.
Invert(m) == IF m.s = 0 THEN m ELSE Mat(m.s, 0 - (m.s * m.tx))

Abs(n) == IF n < 0 THEN 0 - n ELSE n

\* Vector3.Dot(normal, v) with normal = (0, 1, 0)
DotUp(v) == v.y

----------------------------------------------------------------------------
\* Anchor capture: pointer events, picking, buildAnchor

\* 1e-6 in the units in which ray directions are given (direction = units * 1e-6)
EpsUnits == 1

PickedMeshes ==
    { [id |-> "box", uniqueId |-> 1, name |-> "box", matrix |-> Mat(1, 1)],
      [id |-> "flat", uniqueId |-> 2, name |-> "flat", matrix |-> Mat(0, 0)] }

\* scene.pick(px, py) results, and the picking ray used when nothing is hit
Rays ==
    { [origin |-> Vec(0, 2, 0), direction |-> Vec(0, -2, 2)],  \* hits the plane in front
      [origin |-> Vec(0, 2, 0), direction |-> Vec(0, 2, 2)],   \* plane is behind the origin
      [origin |-> Vec(0, 2, 0), direction |-> Vec(2, 0, 2)],   \* parallel
      [origin |-> Vec(0, 2, 0), direction |-> Vec(0, -1, 2)],  \* |denom| = 1e-6 exactly
      [origin |-> Vec(0, 0, 0), direction |-> Vec(0, 2, 2)] }  \* origin on the plane, t = 0

Picks ==
    { [hit |-> TRUE, pickedPoint |-> Vec(1, 0, 0), pickedMesh |-> m, ray |-> NoVec]
        : m \in PickedMeshes }
    \cup { [hit |-> FALSE, pickedPoint |-> NoVec, pickedMesh |-> NoMesh, ray |-> r]
        : r \in Rays }

PointerEvents ==
    [type : {"POINTERDOWN", "POINTERMOVE"}, button : {0, 2}, pick : Picks]

\* Faulty variant of the fallback: intersections behind the origin are accepted
PlaneFallbackBehindOrigin(ray) ==
    LET denom == DotUp(ray.direction)
        num   == 0 - DotUp(ray.origin)
    IN  IF Abs(denom) > EpsUnits
          THEN Vec(ray.origin.x + (ray.direction.x * num) \div denom,
                   ray.origin.y + (ray.direction.y * num) \div denom,
                   ray.origin.z + (ray.direction.z * num) \div denom)
          ELSE NoVec

\* The ray/plane fallback of the pointer observer: the world point, or NoVec.
PlaneFallback(ray) ==
    LET denom == DotUp(ray.direction)
        num   == 0 - DotUp(ray.origin)
    IN  IF Abs(denom) > EpsUnits
          THEN IF num * denom >= 0
                 THEN Vec(ray.origin.x + (ray.direction.x * num) \div denom,
                          ray.origin.y + (ray.direction.y * num) \div denom,
                          ray.origin.z + (ray.direction.z * num) \div denom)
                 ELSE NoVec
          ELSE NoVec

\* world/mesh chosen by the pointer observer from the pick
PickWorld(pick) == IF pick.hit THEN pick.pickedPoint ELSE PlaneFallback(pick.ray)
PickMesh(pick) == IF pick.hit THEN pick.pickedMesh ELSE NoMesh

\* The camera frustum: near and far plane distances, half width at depth 1
Frustum == [near |-> 1, far |-> 3, half |-> 2]

\* Vector3.Project(worldPos, Identity, scene.getTransformMatrix(), viewport):
\* x, y in render pixels; z = zNum / zDen is the normalised depth, 0 on the
\* near plane and 1 on the far plane.
Project(p, cam, size) ==
    [x |-> (size.renderW * ((p.x - cam.x) + Frustum.half)) \div (2 * Frustum.half),
     y |-> (size.renderH * (Frustum.half - p.y)) \div (2 * Frustum.half),
     zNum |-> (p.z - cam.z) - Frustum.near,
     zDen |-> Frustum.far - Frustum.near]

\* left = projected.x * scaleX, top = projected.y * scaleY
Scaled(projected, size) ==
    [left |-> (projected.x * size.rectW) \div size.renderW,
     top |-> (projected.y * size.rectH) \div size.renderH]

\* screen of buildAnchor: the projection of the world point, in CSS pixels
AnchorScreen(world) ==
    LET s == Scaled(Project(world, camera, canvasSize), canvasSize)
    IN  [x |-> s.left, y |-> s.top]

\* invLocal of buildAnchor
InvLocal(world, mesh) ==
    IF mesh # NoMesh THEN TransformCoordinates(world, Invert(mesh.matrix)) ELSE NoVec

\* Faulty variant of buildAnchor: the refs are not checked
BuildAnchorUnchecked(world, mesh, deps, id) ==
    LET inv == InvLocal(world, mesh)
    IN  [id |-> id,
         isOnMesh |-> mesh # NoMesh,
         world |-> world,
         screen |-> AnchorScreen(world),
         local |-> IF inv # NoVec /\ mesh # NoMesh
                     THEN [x |-> inv.x, y |-> inv.y, z |-> inv.z,
                           meshId |-> mesh.id, meshUniqueId |-> mesh.uniqueId,
                           meshName |-> mesh.name]
                     ELSE NoLocal]

\* buildAnchor(world, mesh): NoAnchor when a dependency is missing
BuildAnchor(world, mesh, deps, id) ==
    IF ~deps.scene \/ ~deps.engine \/ ~deps.camera \/ ~deps.canvas
      THEN NoAnchor
      ELSE LET inv == InvLocal(world, mesh)
           IN  [id |-> id,
                isOnMesh |-> mesh # NoMesh,
                world |-> world,
                screen |-> AnchorScreen(world),
                local |-> IF inv # NoVec /\ mesh # NoMesh
                            THEN [x |-> inv.x, y |-> inv.y, z |-> inv.z,
                                  meshId |-> mesh.id, meshUniqueId |-> mesh.uniqueId,
                                  meshName |-> mesh.name]
                            ELSE NoLocal]

\* Faulty variant of the observer callback: comment mode is not consulted
ObserverResultIgnoringMode(e, playing, modeRef, deps, id) ==
    IF e.type # "POINTERDOWN" THEN NoAnchor
    ELSE IF playing THEN NoAnchor
    ELSE IF ~deps.canvas THEN NoAnchor
    ELSE IF PickWorld(e.pick) = NoVec THEN NoAnchor
    ELSE BuildAnchor(PickWorld(e.pick), PickMesh(e.pick), deps, id)

\* The callback registered on scene.onPointerObservable: the anchor it stores,
\* or NoAnchor when it returns early.
ObserverResult(e, playing, modeRef, deps, id) ==
    IF e.type # "POINTERDOWN" THEN NoAnchor
    ELSE IF playing THEN NoAnchor
    ELSE IF ~modeRef THEN NoAnchor
    ELSE IF ~deps.canvas THEN NoAnchor
    ELSE IF PickWorld(e.pick) = NoVec THEN NoAnchor
    ELSE BuildAnchor(PickWorld(e.pick), PickMesh(e.pick), deps, id)

\* The payload the add-handler effect passes to addContext
Payload(anchor, sid, h) == [anchor |-> anchor, sceneId |-> sid, handler |-> h]

\* Faulty variant of the add-handler effect: the retained anchor is not pushed
HandlerEffectDropsAnchor(h, sid, slot, log) == log

\* Body of the effect "push the latest anchor when addHandler changes"
HandlerEffect(h, sid, slot, log) ==
    IF h # NoHandler /\ sid # "" /\ slot # NoAnchor
      THEN Append(log, Payload(slot, sid, h))
      ELSE log

\* Body of the effect mirroring comment mode into the ref
ModeEffect(mode) == mode

\* Dependencies of the add-handler effect: does a sceneId change re-run it?
SceneIdIsDep(h) == h = "useVeltCreateCommentAnchors"

\* Queued passive effects, run in one batch (FlushEffects)
RefAfterFlush ==
    IF "mode" \in pendingEffects THEN ModeEffect(commentModeState) ELSE commentModeStateRef
DeliveredAfterFlush ==
    IF "handler" \in pendingEffects
      THEN HandlerEffect(addHandler, sceneId, clickedAnchorRef, delivered)
      ELSE delivered

\* Pointer-observer effect: the number of observers a run of the effect adds
PointerObserverEffect(isReady, deps) ==
    IF isReady /\ deps.scene /\ deps.camera THEN 1 ELSE 0

\* The projection-observer effect: attaches one observer when all refs are set
ProjectionObserverEffect(sc, deps) ==
    IF sc.present /\ deps.camera /\ deps.engine /\ deps.canvas THEN 1 ELSE 0

\* Faulty variant of a re-run: the previous run's observer is not removed
ObserversAfterRerunNoCleanup(n, added) == n + added

\* A re-run of an attaching effect: the cleanup the previous run returned
\* removes the observer that run had added (a run that returned early
\* returned no cleanup), then the effect body runs.
ObserversAfterRerun(n, added) == (IF n > 0 THEN n - 1 ELSE 0) + added

----------------------------------------------------------------------------
\* Spec: the capture hook mounted in BabylonScene, after its mount effects ran

NoEvent == [type |-> "none"]

CaptureInit ==
    /\ lastEvent = [event |-> NoEvent, tick |-> FALSE]
    /\ hook \in Hooks
    /\ sceneId \in SceneIds
    /\ commentModeState = FALSE
    /\ commentModeStateRef = FALSE
    /\ isPlayingRef = FALSE
    /\ addHandler = NoHandler
    /\ clickedAnchorRef = NoAnchor
    /\ pendingEffects = {}
    /\ ready = FALSE
    /\ pointerObservers = 0
    /\ delivered = <<>>
    /\ nextAnchorId = 1
    /\ handlerGen = 0
    /\ renders = 0
    /\ captureLog = <<>>
    /\ refs = [scene |-> FALSE, engine |-> FALSE, camera |-> FALSE, canvas |-> TRUE]

\* BabylonScene's creation effect: engine, scene and camera are created, the
\* refs set, setReady(true); the re-render attaches the pointer observer.
CreateScene ==
    /\ mounted
    /\ pendingEffects = {}
    /\ ~ready
    /\ ready' = TRUE
    /\ refs' = [scene |-> TRUE, engine |-> TRUE, camera |-> TRUE, canvas |-> TRUE]
    /\ pointerObservers' = ObserversAfterRerun(pointerObservers,
                                             PointerObserverEffect(TRUE, refs'))
    /\ projectionObservers' =
          ObserversAfterRerun(projectionObservers,
                              ProjectionObserverEffect([present |-> refs'.scene], refs'))
    /\ UNCHANGED <<pendingEffects, commentModeStateRef, delivered, hook, sceneId,
                   commentModeState, isPlayingRef, addHandler,
                   clickedAnchorRef, nextAnchorId, handlerGen, renders,
                   captureLog>>
    /\ renderLoop' = TRUE
    /\ UNCHANGED <<resolveVars, markersRef, mounts, camera,
                   canvasSize, frameTick, mounted, cleanups, sceneDisposed, lastEvent>>

\* Velt's comment mode changes: render, the mirror effect is queued.
SetCommentMode ==
    /\ mounted
    /\ pendingEffects = {}
    /\ commentModeState' = ~commentModeState
    /\ pendingEffects' = {"mode"}
    /\ UNCHANGED <<commentModeStateRef, delivered, hook, sceneId, isPlayingRef,
                   addHandler, clickedAnchorRef, ready,
                   pointerObservers, nextAnchorId, handlerGen, renders,
                   captureLog, refs>>
    /\ UNCHANGED <<resolveVars, frameVars, lastEvent>>

\* The Play/Pause button of BabylonScene. The render loop rotates the box iff
\* isPlayingRef.current, so the scene animates exactly while the ref is set.
TogglePlaying ==
    /\ pendingEffects = {}
    /\ isPlayingRef' = ~isPlayingRef
    /\ UNCHANGED <<pendingEffects, commentModeStateRef, delivered, hook, sceneId,
                   commentModeState, addHandler, clickedAnchorRef, ready,
                   pointerObservers, nextAnchorId, handlerGen, renders,
                   captureLog, refs>>
    /\ UNCHANGED <<resolveVars, frameVars, lastEvent>>

\* useCommentAddHandler() returns another value (null or a new handler):
\* render, the add-handler effect is queued.
SetAddHandler ==
    /\ mounted
    /\ pendingEffects = {}
    /\ renders < MaxRenders
    /\ \E h \in {NoHandler, handlerGen + 1} :
         /\ h # addHandler
         /\ addHandler' = h
         /\ handlerGen' = IF h = NoHandler THEN handlerGen ELSE handlerGen + 1
    /\ renders' = renders + 1
    /\ pendingEffects' = {"handler"}
    /\ pointerObservers' = IF hook = "useVeltBabylonComments"
                             THEN ObserversAfterRerun(pointerObservers,
                                                      PointerObserverEffect(ready, refs))
                             ELSE pointerObservers
    /\ UNCHANGED <<commentModeStateRef, delivered, hook, sceneId, commentModeState,
                   isPlayingRef, clickedAnchorRef,
                   ready, nextAnchorId, captureLog, refs>>
    /\ UNCHANGED <<resolveVars, frameVars, lastEvent>>

\* The sceneId prop changes: render; the add-handler effect is queued when
\* sceneId is one of its dependencies.
SetSceneId ==
    /\ mounted
    /\ pendingEffects = {}
    /\ renders < MaxRenders
    /\ \E s \in SceneIds :
         /\ s # sceneId
         /\ sceneId' = s
    /\ renders' = renders + 1
    /\ pendingEffects' = IF SceneIdIsDep(hook) THEN {"handler"} ELSE {}
    /\ UNCHANGED <<commentModeStateRef, delivered, hook, commentModeState,
                   isPlayingRef, addHandler, clickedAnchorRef,
                   ready, pointerObservers, nextAnchorId, handlerGen,
                   captureLog, refs>>
    /\ UNCHANGED <<resolveVars, frameVars, lastEvent>>

\* React runs the queued passive effects.
FlushEffects ==
    /\ mounted
    /\ pendingEffects # {}
    /\ commentModeStateRef' = RefAfterFlush
    /\ delivered' = DeliveredAfterFlush
    /\ pendingEffects' = {}
    /\ UNCHANGED <<hook, sceneId, commentModeState, isPlayingRef, addHandler,
                   clickedAnchorRef, ready, pointerObservers, nextAnchorId,
                   handlerGen, renders, captureLog, refs>>
    /\ UNCHANGED <<resolveVars, frameVars, lastEvent>>

\* Storing a built anchor in clickedAnchorRef (nothing is stored for NoAnchor).
\* captureLog[a.id] records the entry point and the render state at capture.
StoreAnchor(a, via) ==
    IF a = NoAnchor
      THEN UNCHANGED <<clickedAnchorRef, nextAnchorId, captureLog>>
      ELSE /\ clickedAnchorRef' = a
           /\ nextAnchorId' = nextAnchorId + 1
           /\ captureLog' = Append(captureLog, [via |-> via, handler |-> addHandler,
                                                sceneId |-> sceneId])

\* The registered observer is notified of pointer event e.
HandlePointer(e) ==
    /\ pointerObservers > 0
    /\ nextAnchorId <= MaxCaptures
    /\ StoreAnchor(ObserverResult(e, isPlayingRef, commentModeStateRef, refs,
                                  nextAnchorId), "pointer")
    /\ UNCHANGED <<hook, sceneId, commentModeState, commentModeStateRef, isPlayingRef,
                   addHandler, pendingEffects, ready, pointerObservers, delivered,
                   handlerGen, renders, refs>>
    /\ UNCHANGED <<resolveVars, frameVars>>

\* A pointer event on the canvas reaches the registered observer.
PointerEvent ==
    /\ \E e \in PointerEvents : HandlePointer(e)
    /\ UNCHANGED lastEvent

\* The same for the events of the primary button, the event being recorded in
\* lastEvent (SpecPick)
ObservedPointerEvent ==
    \E e \in {ev \in PointerEvents : ev.button = 0} :
        /\ HandlePointer(e)
        /\ lastEvent' = [event |-> e, tick |-> ~lastEvent.tick]

\* The same for the events of every button (SpecButtons)
ObservedAnyPointerEvent ==
    \E e \in PointerEvents :
        /\ HandlePointer(e)
        /\ lastEvent' = [event |-> e, tick |-> ~lastEvent.tick]

\* setClickedAnchor(world, mesh), the helper useVeltBabylonComments returns
SetClickedAnchor ==
    /\ hook = "useVeltBabylonComments"
    /\ nextAnchorId <= MaxCaptures
    /\ \E p \in Picks :
         /\ p.hit
         /\ StoreAnchor(BuildAnchor(p.pickedPoint, p.pickedMesh, refs, nextAnchorId),
                        "helper")
    /\ UNCHANGED <<hook, sceneId, commentModeState, commentModeStateRef, isPlayingRef,
                   addHandler, pendingEffects, ready, pointerObservers, delivered,
                   handlerGen, renders, refs>>
    /\ UNCHANGED <<resolveVars, frameVars, lastEvent>>

CaptureNext ==
    \/ CreateScene
    \/ SetCommentMode
    \/ TogglePlaying
    \/ SetAddHandler
    \/ SetSceneId
    \/ FlushEffects
    \/ PointerEvent
    \/ SetClickedAnchor

----------------------------------------------------------------------------
\* Pin resolver: annotations -> rebuiltPins (useVeltBabylonComments)

Min(S) == CHOOSE n \in S : \A k \in S : n <= k

\* scene.getMeshById / getMeshByUniqueId / getMeshByName: the first mesh of
\* scene.meshes that matches, or null
GetMeshById(sc, objs, id) ==
    LET hits == {i \in 1..Len(sc.meshes) : objs[sc.meshes[i]].id = id}
    IN  IF hits = {} THEN NoMeshRef ELSE sc.meshes[Min(hits)]
GetMeshByUniqueId(sc, objs, uid) ==
    LET hits == {i \in 1..Len(sc.meshes) : sc.meshes[i] = uid}
    IN  IF hits = {} THEN NoMeshRef ELSE sc.meshes[Min(hits)]
GetMeshByName(sc, objs, name) ==
    LET hits == {i \in 1..Len(sc.meshes) : objs[sc.meshes[i]].name = name}
    IN  IF hits = {} THEN NoMeshRef ELSE sc.meshes[Min(hits)]

\* resolveMesh?.(scene, {...}) ?? null
CustomResolve(r, sc, local) == IF r = NoResolver THEN NoMeshRef ELSE r.result

\* Faulty variant of the lookup chain: the name is tried before id and unique id
ResolvePinMeshNameFirst(sc, objs, r, local) ==
    LET m0 == CustomResolve(r, sc, local)
        m1 == IF m0 = NoMeshRef
                THEN GetMeshByName(sc, objs, local.meshName) ELSE m0
        m2 == IF m1 = NoMeshRef /\ local.meshId # ""
                THEN GetMeshById(sc, objs, local.meshId) ELSE m1
        m3 == IF m2 = NoMeshRef
                THEN GetMeshByUniqueId(sc, objs, local.meshUniqueId) ELSE m2
    IN  m3

\* The mesh lookup chain of rebuiltPins
ResolvePinMesh(sc, objs, r, local) ==
    LET m0 == CustomResolve(r, sc, local)
        m1 == IF m0 = NoMeshRef /\ local.meshId # ""
                THEN GetMeshById(sc, objs, local.meshId) ELSE m0
        m2 == IF m0 = NoMeshRef /\ m1 = NoMeshRef
                THEN GetMeshByUniqueId(sc, objs, local.meshUniqueId) ELSE m1
        m3 == IF m0 = NoMeshRef /\ m2 = NoMeshRef
                THEN GetMeshByName(sc, objs, local.meshName) ELSE m2
    IN  m3

\* An annotation without annotationId
NoId == "undefined"

\* Faulty variant of the pin's annotationId: a value made up by the resolver
PinAnnotationIdLocal(ann) == ""

\* annotationId: ann.annotationId ?? ''
PinAnnotationId(ann) == IF ann.annotationId = NoId THEN "" ELSE ann.annotationId

\* Faulty variant of the loop body: an unresolved mesh anchor keeps no world
RebuildPinWithoutFallback(ann, sc, objs, r) ==
    LET a == ann.anchor
        onMesh == a.isOnMesh /\ a.local # NoLocal
        mesh == IF onMesh THEN ResolvePinMesh(sc, objs, r, a.local) ELSE NoMeshRef
    IN  [annotationId |-> PinAnnotationId(ann),
         mesh |-> mesh,
         localPosition |-> IF onMesh THEN Vec(a.local.x, a.local.y, a.local.z)
                                     ELSE Vec(0, 0, 0),
         worldStatic |-> IF onMesh THEN NoVec ELSE a.world]

\* Faulty variant of the loop body: a stored local part is resolved whatever
\* isOnMesh says
RebuildPinIgnoringIsOnMesh(ann, sc, objs, r) ==
    LET a == ann.anchor
        onMesh == a.local # NoLocal
        mesh == IF onMesh THEN ResolvePinMesh(sc, objs, r, a.local) ELSE NoMeshRef
    IN  [annotationId |-> PinAnnotationId(ann),
         mesh |-> mesh,
         localPosition |-> IF onMesh THEN Vec(a.local.x, a.local.y, a.local.z)
                                     ELSE Vec(0, 0, 0),
         worldStatic |-> IF onMesh
                           THEN IF mesh = NoMeshRef /\ a.world # NoVec
                                  THEN a.world ELSE NoVec
                           ELSE a.world]

\* Faulty variant of the loop body: the world position is kept beside the mesh
RebuildPinAlwaysStatic(ann, sc, objs, r) ==
    LET a == ann.anchor
        onMesh == a.isOnMesh /\ a.local # NoLocal
        mesh == IF onMesh THEN ResolvePinMesh(sc, objs, r, a.local) ELSE NoMeshRef
    IN  [annotationId |-> PinAnnotationId(ann),
         mesh |-> mesh,
         localPosition |-> IF onMesh THEN Vec(a.local.x, a.local.y, a.local.z)
                                     ELSE Vec(0, 0, 0),
         worldStatic |-> a.world]

\* One iteration of the loop of rebuiltPins, for an annotation with an anchor
RebuildPin(ann, sc, objs, r) ==
    LET a == ann.anchor
        onMesh == a.isOnMesh /\ a.local # NoLocal
        mesh == IF onMesh THEN ResolvePinMesh(sc, objs, r, a.local) ELSE NoMeshRef
    IN  [annotationId |-> PinAnnotationId(ann),
         mesh |-> mesh,
         localPosition |-> IF onMesh THEN Vec(a.local.x, a.local.y, a.local.z)
                                     ELSE Vec(0, 0, 0),
         worldStatic |-> IF onMesh
                           THEN IF mesh = NoMeshRef /\ a.world # NoVec
                                  THEN a.world ELSE NoVec
                           ELSE a.world]

HasAnchor(ann) == ann.anchor # NoAnchorData

\* Faulty variant of the "annotations" memo: the sceneId is not compared
AnnotationsOfAnyScene(all, sid) ==
    IF all = NoAnnotations
      THEN NoAnnotations
      ELSE [loaded |-> TRUE, items |-> SelectSeq(all.items, HasAnchor)]

\* useMemo "annotations": the annotations whose anchor carries this sceneId
Annotations(all, sid) ==
    IF all = NoAnnotations
      THEN NoAnnotations
      ELSE [loaded |-> TRUE,
            items |-> SelectSeq(all.items,
                          LAMBDA ann : HasAnchor(ann) /\ ann.anchor.sceneId = sid)]

\* Faulty variant of the "rebuiltPins" memo: the pins come out in reverse order
RebuiltPinsReversed(anns, sc, objs, r) ==
    IF sc = NoScene \/ anns = NoAnnotations
      THEN <<>>
      ELSE LET kept == SelectSeq(anns.items, HasAnchor)
           IN  [k \in 1..Len(kept) |->
                   RebuildPin(kept[Len(kept) + 1 - k], sc, objs, r)]

\* useMemo "rebuiltPins"
RebuiltPins(anns, sc, objs, r) ==
    IF sc = NoScene \/ anns = NoAnnotations
      THEN <<>>
      ELSE LET kept == SelectSeq(anns.items, HasAnchor)
           IN  [k \in 1..Len(kept) |-> RebuildPin(kept[k], sc, objs, r)]

\* Inputs of the resolver ---------------------------------------------------

\* The mesh objects of the resolver's scene
ResolveMeshObjs ==
    [u \in 1..3 |->
        CASE u = 1 -> [id |-> "a", name |-> "x", matrix |-> Mat(1, 0), disposed |-> FALSE]
          [] u = 2 -> [id |-> "b", name |-> "y", matrix |-> Mat(1, 1), disposed |-> FALSE]
          [] u = 3 -> [id |-> "", name |-> "z", matrix |-> Mat(1, 0), disposed |-> FALSE]]

SceneChoices == { [present |-> TRUE, meshes |-> <<1, 2, 3>>],
                  [present |-> TRUE, meshes |-> <<2>>] }

Resolvers == { NoResolver, [kind |-> "custom", result |-> NoMeshRef],
               [kind |-> "custom", result |-> 2] }

Local(v, id, uid, name) ==
    [x |-> v.x, y |-> v.y, z |-> v.z, meshId |-> id, meshUniqueId |-> uid,
     meshName |-> name]

StoredAnchor(sid, onMesh, world, local) ==
    [sceneId |-> sid, isOnMesh |-> onMesh, world |-> world, local |-> local]

\* Mesh identities stored in anchors: (id, unique id, name)
LocalIdentities ==
    { <<"a", 2, "z">>,    \* id, unique id and name name three different meshes
      <<"zz", 2, "x">>,   \* id unknown
      <<"zz", 9, "z">>,   \* only the name is known
      <<"zz", 9, "zz">>,  \* nothing matches
      <<"", 2, "x">>,     \* empty id (mesh 3 has the empty id)
      <<"", 9, "zz">> }

\* babylonAnchorData payloads found in the store
AnchorPool ==
    { StoredAnchor("A", TRUE, Vec(1, 0, 2), Local(Vec(1, 0, 0), t[1], t[2], t[3]))
        : t \in LocalIdentities }
    \cup
    { NoAnchorData,
      StoredAnchor("A", FALSE, Vec(0, 0, 2), NoLocal),
      StoredAnchor("B", FALSE, Vec(0, 0, 2), NoLocal),
      StoredAnchor("A", FALSE, NoVec, NoLocal),
      StoredAnchor("A", TRUE, NoVec, Local(Vec(1, 0, 0), "zz", 9, "zz")),
      StoredAnchor("B", TRUE, Vec(1, 0, 2), Local(Vec(1, 0, 0), "a", 1, "x")),
      StoredAnchor("A", TRUE, Vec(1, 0, 2), NoLocal),
      StoredAnchor("A", FALSE, Vec(1, 0, 2), Local(Vec(1, 0, 0), "a", 1, "x")) }

AnnotationIds == <<"c1", "c2", "c3", "c4">>

\* The payloads that are combined into collections of several annotations
CorePool ==
    { NoAnchorData,
      StoredAnchor("A", FALSE, Vec(0, 0, 2), NoLocal),
      StoredAnchor("B", FALSE, Vec(0, 0, 2), NoLocal),
      StoredAnchor("A", TRUE, Vec(1, 0, 2), Local(Vec(1, 0, 0), "a", 2, "z")),
      StoredAnchor("A", TRUE, Vec(1, 0, 2), Local(Vec(1, 0, 0), "zz", 9, "zz")) }

CollectionsOver(pool, maxLen) ==
    UNION { { [loaded |-> TRUE,
               items |-> [i \in 1..n |-> [annotationId |-> AnnotationIds[i],
                                          anchor |-> f[i]]]]
                : f \in [1..n -> pool] } : n \in 0..maxLen }

\* Annotation collections delivered by useCommentAnnotations(): null, up to
\* MaxAnnotations annotations over CorePool, or one annotation of AnchorPool
Collections ==
    {NoAnnotations} \cup CollectionsOver(CorePool, MaxAnnotations)
                    \cup CollectionsOver(AnchorPool, 1)

\* Markers: computedPins -> markersRef and mount elements --------------------

\* Elements are identified by small numbers; an element that is detached and
\* no longer referenced is garbage, and its number is free again.
MaxElements == 2 * MaxAnnotations

FreeMount == [attached |-> FALSE, display |-> "unset", pos |-> NoVec]

\* document.createElement('div') appended to the wrapper: no display/left/top yet
NewMount == [attached |-> TRUE, display |-> "unset", pos |-> NoVec]

MountEls(markers) == {markers[k].mountEl : k \in 1..Len(markers)}

\* The n-th smallest element number that is not in use
NthFree(els, n) ==
    CHOOSE e \in 1..MaxElements :
        /\ ~els[e].attached
        /\ Cardinality({d \in 1..e : ~els[d].attached}) = n

\* The MarkerRecord made for pin k
MarkerRecord(pin, el) ==
    [id |-> el, mesh |-> pin.mesh, localPosition |-> pin.localPosition,
     worldStatic |-> pin.worldStatic, annotationId |-> pin.annotationId,
     mountEl |-> el]

\* Faulty variant of the rebuild: the new markers are pushed onto the tracked list
MarkersPushedOntoOld(pins, markers, els) ==
    markers \o [k \in 1..Len(pins) |-> MarkerRecord(pins[k], NthFree(els, k))]

\* markersRef.current after the rebuild effect ran on the pin list
MarkersAfterRebuild(pins, markers, els) ==
    [k \in 1..Len(pins) |-> MarkerRecord(pins[k], NthFree(els, k))]

\* Faulty variant of the rebuild: the mounts of the previous markers stay attached
MountsAfterRebuildKeepingOld(pins, markers, els) ==
    LET created == MountEls(MarkersAfterRebuild(pins, markers, els))
    IN  [e \in 1..MaxElements |-> IF e \in created THEN NewMount ELSE els[e]]

\* The elements after the rebuild effect: the new mounts are appended to the
\* wrapper, the mounts of the previous markers are removed from it
MountsAfterRebuild(pins, markers, els) ==
    LET created == MountEls(MarkersAfterRebuild(pins, markers, els))
    IN  [e \in 1..MaxElements |->
            IF e \in created THEN NewMount
            ELSE IF e \in MountEls(markers) /\ els[e].attached THEN FreeMount
            ELSE els[e]]

\* The effect "rebuild markers whenever annotations change". It runs after
\* every render that recomputed computedPins (the memo returns a new array each
\* time); nothing that reads markersRef or the mounts can tell the render from
\* the effect, so the two are one step.
MarkerEffect(pins) ==
    IF ~scene.present \/ ~refs.canvas
      THEN UNCHANGED markerVars
      ELSE /\ markersRef' = MarkersAfterRebuild(pins, markersRef, mounts)
           /\ mounts' = MountsAfterRebuild(pins, markersRef, mounts)

\* SpecResolve --------------------------------------------------------------

ResolveIdle ==
    /\ scene = NoScene
    /\ meshObjs = ResolveMeshObjs
    /\ resolveMesh = NoResolver
    /\ allAnnotations = NoAnnotations
    /\ annotations = NoAnnotations
    /\ rebuiltPins = <<>>
    /\ pinsScene = NoScene

ResolveInit ==
    /\ scene = NoScene
    /\ meshObjs = ResolveMeshObjs
    /\ resolveMesh \in Resolvers
    /\ allAnnotations = NoAnnotations
    /\ annotations = NoAnnotations
    /\ rebuiltPins = <<>>
    /\ pinsScene = NoScene

\* A render in which a dependency of the memos changed: both are recomputed,
\* reading sceneRef.current as it is now.
Recompute(all, sid, r) ==
    /\ annotations' = Annotations(all, sid)
    /\ rebuiltPins' = RebuiltPins(annotations', scene, meshObjs, r)
    /\ pinsScene' = scene
    /\ MarkerEffect(rebuiltPins')

\* useCommentAnnotations() returns another collection
AnnotationsChanged ==
    /\ \E c \in Collections :
         /\ allAnnotations' = c
         /\ Recompute(c, sceneId, resolveMesh)
    /\ UNCHANGED <<sceneId, scene, meshObjs, resolveMesh>>
    /\ UNCHANGED <<captureOnlyVars, viewVars>>

\* the sceneId prop changes
SceneIdChanged ==
    /\ \E s \in SceneIds :
         /\ s # sceneId
         /\ sceneId' = s
         /\ Recompute(allAnnotations, s, resolveMesh)
    /\ UNCHANGED <<allAnnotations, scene, meshObjs, resolveMesh>>
    /\ UNCHANGED <<captureOnlyVars, viewVars>>

\* the resolveMesh prop changes
ResolverChanged ==
    /\ \E r \in Resolvers :
         /\ r # resolveMesh
         /\ resolveMesh' = r
         /\ Recompute(allAnnotations, sceneId, r)
    /\ UNCHANGED <<sceneId, allAnnotations, scene, meshObjs>>
    /\ UNCHANGED <<captureOnlyVars, viewVars>>

\* BabylonScene creates the scene and sets sceneRef.current; the re-render
\* (setReady) changes no dependency of the memos.
SceneRefSet ==
    /\ scene = NoScene
    /\ scene' \in SceneChoices
    /\ UNCHANGED <<sceneId, allAnnotations, meshObjs, resolveMesh, annotations,
                   rebuiltPins, pinsScene, markerVars>>
    /\ UNCHANGED <<captureOnlyVars, viewVars>>

ResolveNext ==
    \/ AnnotationsChanged
    \/ SceneIdChanged
    \/ ResolverChanged
    \/ SceneRefSet

----------------------------------------------------------------------------
\* Per-frame reprojection (VeltBabylonComments)

\* Camera positions (the camera looks along +z)
Cameras == { [x |-> 0, z |-> 0], [x |-> 0, z |-> 1], [x |-> 0, z |-> -1] }

\* engine.getRenderWidth/Height() and canvas.getBoundingClientRect()
CanvasSizes ==
    { [renderW |-> 4, renderH |-> 4, rectW |-> 4, rectH |-> 8],
      [renderW |-> 8, renderH |-> 4, rectW |-> 4, rectH |-> 4] }

\* World matrices the animated mesh goes through
FrameMatrices == { Mat(1, 0), Mat(1, 1) }

\* Faulty variant of worldPos: the mesh matrix of the time the scene was created
WorldPosAtCreation(m, objs) ==
    IF m.mesh # NoMeshRef
      THEN TransformCoordinates(m.localPosition, ResolveMeshObjs[m.mesh].matrix)
      ELSE m.worldStatic

\* const worldPos = markerRef.mesh ? TransformCoordinates(...) : markerRef.worldStatic
WorldPos(m, objs) ==
    IF m.mesh # NoMeshRef
      THEN TransformCoordinates(m.localPosition, objs[m.mesh].matrix)
      ELSE m.worldStatic

\* Faulty variant of isVisible: the near and far planes are excluded
IsVisibleStrict(projected) == projected.zNum > 0 /\ projected.zNum < projected.zDen

\* const isVisible = projected.z >= 0 && projected.z <= 1
IsVisible(projected) == projected.zNum >= 0 /\ projected.zNum <= projected.zDen

\* Faulty variant of the loop body: the offsets are added to those of the last pass
ReprojectAccumulating(m, el, objs, cam, size) ==
    LET worldPos == WorldPos(m, objs)
        projected == Project(worldPos, cam, size)
        at == Scaled(projected, size)
    IN  IF worldPos = NoVec THEN el
        ELSE IF ~IsVisible(projected) THEN [el EXCEPT !.display = "none"]
        ELSE [el EXCEPT !.display = "block",
                        !.pos = IF el.pos = NoVec THEN at
                                ELSE [left |-> el.pos.left + at.left,
                                      top |-> el.pos.top + at.top]]

\* One iteration of the loop of the frame callback: the mount after it
Reproject(m, el, objs, cam, size) ==
    LET worldPos == WorldPos(m, objs)
        projected == Project(worldPos, cam, size)
    IN  IF worldPos = NoVec THEN el
        ELSE IF ~IsVisible(projected) THEN [el EXCEPT !.display = "none"]
        ELSE [el EXCEPT !.display = "block", !.pos = Scaled(projected, size)]

\* The frame callback: the elements after the loop over markersRef.current
MountsAfterPass(markers, els, objs, cam, size) ==
    [e \in 1..MaxElements |->
        IF \E k \in 1..Len(markers) : markers[k].mountEl = e
          THEN LET k == CHOOSE k \in 1..Len(markers) : markers[k].mountEl = e
               IN  Reproject(markers[k], els[e], objs, cam, size)
          ELSE els[e]]

\* babylonAnchorData payloads of the annotations shown in SpecFrame
FrameAnchors ==
    << StoredAnchor("A", TRUE, Vec(1, 0, 2), Local(Vec(1, 0, 2), "a", 1, "x")),
       StoredAnchor("A", FALSE, Vec(0, 0, 1), NoLocal),
       StoredAnchor("A", FALSE, Vec(-1, 1, 3), NoLocal),
       StoredAnchor("A", FALSE, NoVec, NoLocal) >>

\* The elements of a set of numbers in increasing order
RECURSIVE Ascending(_)
Ascending(S) == IF S = {} THEN <<>> ELSE <<Min(S)>> \o Ascending(S \ {Min(S)})

\* Annotation collections of SpecFrame: up to MaxAnnotations of FrameAnchors
FrameCollections ==
    { [loaded |-> TRUE,
       items |-> [i \in 1..Cardinality(S) |->
                    [annotationId |-> AnnotationIds[Ascending(S)[i]],
                     anchor |-> FrameAnchors[Ascending(S)[i]]]]]
        : S \in {T \in SUBSET (1..Len(FrameAnchors)) : Cardinality(T) <= MaxAnnotations} }

\* Mounted, before the scene creation effect ran
LifeIdle ==
    /\ mounted = TRUE
    /\ cleanups = <<>>
    /\ renderLoop = FALSE
    /\ sceneDisposed = FALSE

\* Mounted, after the scene creation effect started the render loop
LifeReady ==
    /\ mounted = TRUE
    /\ cleanups = <<>>
    /\ renderLoop = TRUE
    /\ sceneDisposed = FALSE

FrameIdle ==
    /\ LifeIdle
    /\ markersRef = <<>>
    /\ mounts = [e \in 1..MaxElements |-> FreeMount]
    /\ projectionObservers = 0
    /\ camera = [x |-> 0, z |-> 0]
    /\ canvasSize = [renderW |-> 4, renderH |-> 4, rectW |-> 4, rectH |-> 8]
    /\ frameTick = FALSE

\* SpecFrame starts when BabylonScene has created the scene and the overlay's
\* effects of the "ready" render have run.
FrameInit ==
    /\ LifeReady
    /\ markersRef = <<>>
    /\ mounts = [e \in 1..MaxElements |-> FreeMount]
    /\ projectionObservers = ProjectionObserverEffect(scene, refs)
    /\ camera \in Cameras
    /\ canvasSize \in CanvasSizes
    /\ frameTick = FALSE

\* useCommentAnnotations() returns another collection: the pins are resolved
\* again and the markers rebuilt.
PinsChanged ==
    /\ mounted
    /\ \E c \in FrameCollections :
         /\ allAnnotations' = c
         /\ Recompute(c, sceneId, resolveMesh)
    /\ UNCHANGED <<sceneId, scene, meshObjs, resolveMesh>>
    /\ UNCHANGED <<captureOnlyVars, viewVars>>

\* scene.render() notifies onBeforeRenderObservable: the frame callback
Frame ==
    /\ renderLoop
    /\ projectionObservers > 0
    /\ mounts' = MountsAfterPass(markersRef, mounts, meshObjs, camera, canvasSize)
    /\ frameTick' = ~frameTick
    /\ UNCHANGED <<markersRef, projectionObservers, camera, canvasSize, lifeVars>>
    /\ UNCHANGED <<captureVars, resolveVars>>

\* The animation moves a mesh: its world matrix changes
MeshMoved ==
    /\ renderLoop
    /\ \E u \in {1}, mx \in FrameMatrices :
         /\ mx # meshObjs[u].matrix
         /\ meshObjs' = [meshObjs EXCEPT ![u].matrix = mx]
    /\ UNCHANGED <<scene, resolveMesh, allAnnotations, annotations, rebuiltPins,
                   pinsScene>>
    /\ UNCHANGED <<captureVars, frameVars>>

\* mesh.dispose(): the mesh leaves scene.meshes; references to it stay behind
MeshDisposed ==
    /\ mounted
    /\ \E u \in {1} :
         /\ ~meshObjs[u].disposed
         /\ meshObjs' = [meshObjs EXCEPT ![u].disposed = TRUE]
         /\ scene' = [scene EXCEPT !.meshes = SelectSeq(scene.meshes,
                                                        LAMBDA v : v # u)]
    /\ UNCHANGED <<resolveMesh, allAnnotations, annotations, rebuiltPins, pinsScene>>
    /\ UNCHANGED <<captureVars, frameVars>>

\* The user orbits / zooms the camera
CameraMoved ==
    /\ mounted
    /\ \E c \in Cameras :
         /\ c # camera
         /\ camera' = c
    /\ UNCHANGED <<markersRef, mounts, projectionObservers, canvasSize, frameTick,
                   lifeVars>>
    /\ UNCHANGED <<captureVars, resolveVars>>

\* The window is resized: engine.resize()
Resized ==
    /\ renderLoop
    /\ \E c \in CanvasSizes :
         /\ c # canvasSize
         /\ canvasSize' = c
    /\ UNCHANGED <<markersRef, mounts, projectionObservers, camera, frameTick,
                   lifeVars>>
    /\ UNCHANGED <<captureVars, resolveVars>>

\* Unmount of BabylonScene --------------------------------------------------

\* The effect cleanups React runs for the removed subtree: the component's own
\* before those of its children.
UnmountCleanups == <<"BabylonScene", "VeltBabylonComments">>

\* Faulty variant of the scene cleanup: the render loop is left running
LoopKeptRunning(loop) == loop

\* engine.stopRenderLoop()
LoopAfterSceneCleanup(loop) == FALSE

\* BabylonScene, whose creation effect has run, is removed from the tree; its
\* cleanups are pending.
Unmount ==
    /\ mounted
    /\ ready
    /\ pendingEffects = {}
    /\ mounted' = FALSE
    /\ cleanups' = UnmountCleanups
    /\ UNCHANGED <<renderLoop, sceneDisposed, markersRef, mounts, projectionObservers,
                   camera, canvasSize, frameTick>>
    /\ UNCHANGED <<captureVars, resolveVars>>

\* Cleanup of BabylonScene's creation effect: the resize listener is removed,
\* the render loop stopped, scene and engine disposed (with all meshes).
SceneCleanup ==
    /\ cleanups # <<>>
    /\ Head(cleanups) = "BabylonScene"
    /\ cleanups' = Tail(cleanups)
    /\ renderLoop' = LoopAfterSceneCleanup(renderLoop)
    /\ sceneDisposed' = TRUE
    /\ meshObjs' = [u \in DOMAIN meshObjs |-> [meshObjs[u] EXCEPT !.disposed = TRUE]]
    /\ scene' = [scene EXCEPT !.meshes = <<>>]
    /\ UNCHANGED <<mounted, markersRef, mounts, projectionObservers, camera, canvasSize,
                   frameTick>>
    /\ UNCHANGED <<resolveMesh, allAnnotations, annotations, rebuiltPins, pinsScene>>
    /\ UNCHANGED captureVars

\* Cleanups of the overlay's effects, in declaration order: the pointer
\* observer and the projection observer are removed, the mounts are removed
\* from the wrapper and markersRef is emptied.
OverlayCleanup ==
    /\ cleanups # <<>>
    /\ Head(cleanups) = "VeltBabylonComments"
    /\ cleanups' = Tail(cleanups)
    /\ pointerObservers' = 0
    /\ projectionObservers' = 0
    /\ mounts' = [e \in 1..MaxElements |->
                    IF e \in MountEls(markersRef) /\ mounts[e].attached
                      THEN FreeMount ELSE mounts[e]]
    /\ markersRef' = <<>>
    /\ UNCHANGED <<mounted, renderLoop, sceneDisposed, camera, canvasSize, frameTick>>
    /\ UNCHANGED <<hook, sceneId, commentModeState, commentModeStateRef, isPlayingRef,
                   addHandler, clickedAnchorRef, pendingEffects, ready, delivered,
                   nextAnchorId, handlerGen, renders, captureLog, refs, lastEvent>>
    /\ UNCHANGED resolveVars

FrameNext ==
    \/ PinsChanged
    \/ Frame
    \/ MeshMoved
    \/ MeshDisposed
    \/ CameraMoved
    \/ Resized
    \/ Unmount
    \/ SceneCleanup
    \/ OverlayCleanup

----------------------------------------------------------------------------
\* Specifications

CaptureIdle ==
    /\ lastEvent = [event |-> NoEvent, tick |-> FALSE]
    /\ hook = "useVeltBabylonComments"
    /\ commentModeState = FALSE
    /\ commentModeStateRef = FALSE
    /\ isPlayingRef = FALSE
    /\ addHandler = NoHandler
    /\ clickedAnchorRef = NoAnchor
    /\ pendingEffects = {}
    /\ ready = FALSE
    /\ pointerObservers = 0
    /\ delivered = <<>>
    /\ nextAnchorId = 1
    /\ handlerGen = 0
    /\ renders = 0
    /\ captureLog = <<>>
    /\ refs = [scene |-> FALSE, engine |-> FALSE, camera |-> FALSE, canvas |-> TRUE]

\* The overlay mounted in a created scene: refs set, ready, no capture going on
CaptureReady ==
    /\ lastEvent = [event |-> NoEvent, tick |-> FALSE]
    /\ refs = [scene |-> TRUE, engine |-> TRUE, camera |-> TRUE, canvas |-> TRUE]
    /\ ready = TRUE
    /\ hook = "useVeltBabylonComments"
    /\ sceneId = "A"
    /\ commentModeState = FALSE
    /\ commentModeStateRef = FALSE
    /\ isPlayingRef = FALSE
    /\ addHandler = NoHandler
    /\ clickedAnchorRef = NoAnchor
    /\ pendingEffects = {}
    /\ pointerObservers = PointerObserverEffect(ready, refs)
    /\ delivered = <<>>
    /\ nextAnchorId = 1
    /\ handlerGen = 0
    /\ renders = 0
    /\ captureLog = <<>>

ResolveReady ==
    /\ scene = [present |-> TRUE, meshes |-> <<1, 2, 3>>]
    /\ meshObjs = ResolveMeshObjs
    /\ resolveMesh = NoResolver
    /\ allAnnotations = NoAnnotations
    /\ annotations = NoAnnotations
    /\ rebuiltPins = <<>>
    /\ pinsScene = scene

vars == <<captureVars, resolveVars, frameVars>>

Init == CaptureInit /\ ResolveIdle /\ FrameIdle
Next == CaptureNext
Spec == Init /\ [][Next]_vars

InitResolve == CaptureIdle /\ sceneId \in SceneIds /\ ResolveInit /\ FrameIdle
NextResolve == ResolveNext
SpecResolve == InitResolve /\ [][NextResolve]_vars

\* SpecPick: the capture hook with its observer attached; the host may have left
\* engineRef or canvasRef unset.
PickInit ==
    /\ lastEvent = [event |-> NoEvent, tick |-> FALSE]
    /\ hook = "useVeltCreateCommentAnchors"
    /\ sceneId = "A"
    /\ commentModeState \in BOOLEAN
    /\ commentModeStateRef = ModeEffect(commentModeState)
    /\ isPlayingRef \in BOOLEAN
    /\ addHandler = NoHandler
    /\ clickedAnchorRef = NoAnchor
    /\ pendingEffects = {}
    /\ ready = TRUE
    /\ refs \in {r \in [{"scene", "engine", "camera", "canvas"} -> BOOLEAN] :
                    r.scene /\ r.camera}
    /\ pointerObservers = PointerObserverEffect(ready, refs)
    /\ delivered = <<>>
    /\ nextAnchorId = 1
    /\ handlerGen = 0
    /\ renders = 0
    /\ captureLog = <<>>

PickNext ==
    \/ ObservedPointerEvent
    \/ SetCommentMode
    \/ TogglePlaying
    \/ SetAddHandler
    \/ FlushEffects

InitPick == PickInit /\ ResolveIdle /\ FrameIdle
NextPick == PickNext
SpecPick == InitPick /\ [][NextPick]_vars

\* SpecRoundTrip: a click on a mesh of the scene is captured and delivered, the
\* store returns it in an annotation, the pin is resolved and reprojected.
\* Camera, canvas and meshes stay as they are.

\* World matrices of the clicked mesh
RoundMatrices == { Mat(1, 0), Mat(1, 1), Mat(0, 0) }

\* Picked world points (inside the view of every camera)
RoundPoints == { Vec(1, 0, 2), Vec(-1, 1, 2) }

\* scene.pick() hit mesh u of the scene at point p
SceneHit(u, p) ==
    [type |-> "POINTERDOWN", button |-> 0,
     pick |-> [hit |-> TRUE, pickedPoint |-> p,
               pickedMesh |-> [id |-> meshObjs[u].id, uniqueId |-> u,
                               name |-> meshObjs[u].name,
                               matrix |-> meshObjs[u].matrix],
               ray |-> NoVec]]

\* babylonAnchorData as the store keeps it: the delivered anchor under its sceneId
AnchorData(payload) ==
    [sceneId |-> payload.sceneId, isOnMesh |-> payload.anchor.isOnMesh,
     world |-> payload.anchor.world, local |-> payload.anchor.local,
     screen |-> payload.anchor.screen]

RoundInit ==
    /\ lastEvent = [event |-> NoEvent, tick |-> FALSE]
    /\ refs = [scene |-> TRUE, engine |-> TRUE, camera |-> TRUE, canvas |-> TRUE]
    /\ ready = TRUE
    /\ hook = "useVeltCreateCommentAnchors"
    /\ sceneId = "A"
    /\ commentModeState = TRUE
    /\ commentModeStateRef = ModeEffect(commentModeState)
    /\ isPlayingRef = FALSE
    /\ addHandler = NoHandler
    /\ clickedAnchorRef = NoAnchor
    /\ pendingEffects = {}
    /\ pointerObservers = PointerObserverEffect(ready, refs)
    /\ delivered = <<>>
    /\ nextAnchorId = 1
    /\ handlerGen = 0
    /\ renders = 0
    /\ captureLog = <<>>
    /\ scene = [present |-> TRUE, meshes |-> <<1, 2, 3>>]
    /\ meshObjs \in { [ResolveMeshObjs EXCEPT ![1].matrix = mx] : mx \in RoundMatrices }
    /\ resolveMesh = NoResolver
    /\ allAnnotations = NoAnnotations
    /\ annotations = NoAnnotations
    /\ rebuiltPins = <<>>
    /\ pinsScene = scene

\* A primary pointer-down on the first mesh of the scene
ScenePointerDown ==
    /\ \E p \in RoundPoints : HandlePointer(SceneHit(scene.meshes[1], p))
    /\ UNCHANGED lastEvent

\* The store has attached a delivered payload to a comment:
\* useCommentAnnotations() returns the annotation that carries it.
StoreReturns ==
    /\ mounted
    /\ \E i \in 1..Len(delivered) :
         /\ allAnnotations' =
               [loaded |-> TRUE,
                items |-> << [annotationId |-> AnnotationIds[1],
                              anchor |-> AnchorData(delivered[i])] >>]
         /\ Recompute(allAnnotations', sceneId, resolveMesh)
    /\ UNCHANGED <<sceneId, scene, meshObjs, resolveMesh>>
    /\ UNCHANGED <<captureOnlyVars, viewVars>>

RoundNext ==
    \/ ScenePointerDown
    \/ SetAddHandler
    \/ FlushEffects
    \/ StoreReturns
    \/ Frame

InitRoundTrip == RoundInit /\ FrameInit
NextRoundTrip == RoundNext
SpecRoundTrip == InitRoundTrip /\ [][NextRoundTrip]_vars

\* SpecButtons: pointer events of every type and button reach the observer
ButtonsNext ==
    \/ ObservedAnyPointerEvent
    \/ SetCommentMode
    \/ TogglePlaying
    \/ FlushEffects

InitButtons == PickInit /\ ResolveIdle /\ FrameIdle
NextButtons == ButtonsNext
SpecButtons == InitButtons /\ [][NextButtons]_vars

\* SpecObservers: the overlay from mount to unmount: scene creation, handler,
\* sceneId and comment-mode changes, then the cleanups.
ObserversNext ==
    \/ CreateScene
    \/ SetCommentMode
    \/ SetAddHandler
    \/ SetSceneId
    \/ FlushEffects
    \/ Unmount
    \/ SceneCleanup
    \/ OverlayCleanup

InitObservers == CaptureInit /\ ResolveIdle /\ FrameIdle
NextObservers == ObserversNext
SpecObservers == InitObservers /\ [][NextObservers]_vars

InitFrame == CaptureReady /\ ResolveReady /\ FrameInit
NextFrame == FrameNext
SpecFrame == InitFrame /\ [][NextFrame]_vars

----------------------------------------------------------------------------
\* Properties of anchor capture and delivery (Spec)

DeliveredIds == {delivered[i].anchor.id : i \in 1..Len(delivered)}

\* The step runs the queued add-handler effect
HandlerEffectRuns == "handler" \in pendingEffects /\ "handler" \notin pendingEffects'

\* C1: each captured anchor is passed to addContext at most once, whatever
\* handler and sceneId changes follow its delivery.
C1_DeliveredAtMostOnce ==
    \A i, j \in 1..Len(delivered) :
        i # j => delivered[i].anchor.id # delivered[j].anchor.id

\* C2: every produced anchor is eventually passed to addContext, also when the
\* handler is already available at capture time and does not change afterwards:
\* once nothing is queued any more, the anchor in the slot has been delivered.
C2_CaptureIsDelivered ==
    (/\ pendingEffects = {}
     /\ addHandler # NoHandler
     /\ sceneId # ""
     /\ clickedAnchorRef # NoAnchor)
    => clickedAnchorRef.id \in DeliveredIds

\* C3, parts shared by the claim as stated and as amended: the slot is only
\* ever replaced by a newer capture (never cleared); the handler becoming
\* available queues the redelivery; nothing but the anchor in the slot is
\* ever delivered, and only by the redelivery effect.
C3_Retention ==
    /\ (clickedAnchorRef' # clickedAnchorRef
          => clickedAnchorRef' # NoAnchor /\ clickedAnchorRef'.id = nextAnchorId)
    /\ (addHandler = NoHandler /\ addHandler' # NoHandler
          => "handler" \in pendingEffects')
    /\ (delivered' # delivered
          => /\ HandlerEffectRuns
             /\ clickedAnchorRef # NoAnchor
             /\ clickedAnchorRef.id = nextAnchorId - 1
             /\ delivered' = Append(delivered,
                                    Payload(clickedAnchorRef, sceneId, addHandler)))

\* The slot holds an anchor that was captured while addHandler was null
CapturedUnavailable ==
    /\ clickedAnchorRef # NoAnchor
    /\ captureLog[clickedAnchorRef.id].handler = NoHandler

\* C3 (as stated): an anchor captured while the handler is unavailable stays in
\* the slot and is delivered when the handler becomes available (the queued
\* redelivery runs); of several captures only the last one is delivered.
C3_RedeliveredWhenAvailable ==
    [][/\ C3_Retention
       /\ ((HandlerEffectRuns /\ addHandler # NoHandler /\ CapturedUnavailable)
             => delivered' = Append(delivered,
                                    Payload(clickedAnchorRef, sceneId, addHandler)))
      ]_vars

\* C3 (amended): as above, provided sceneId is non-empty when the redelivery runs.
C3_RedeliveredWhenAvailableWithSceneId ==
    [][/\ C3_Retention
       /\ ((HandlerEffectRuns /\ addHandler # NoHandler /\ CapturedUnavailable
              /\ sceneId # "")
             => delivered' = Append(delivered,
                                    Payload(clickedAnchorRef, sceneId, addHandler)))
      ]_vars

\* C3 witness: two anchors were captured while the handler was unavailable and
\* the second one, and only it, has been delivered.
C3_Witness ==
    /\ Len(captureLog) = 2
    /\ captureLog[1].handler = NoHandler
    /\ captureLog[2].handler = NoHandler
    /\ DeliveredIds = {2}

\* The step is a capture made by the pointer observer
PointerCapture ==
    /\ clickedAnchorRef' # clickedAnchorRef
    /\ captureLog'[Len(captureLog')].via = "pointer"

\* C4 (as stated): a pointer event changes the slot only if comment mode is
\* enabled and the scene is not animating at the moment of the event.
C4_GatedByCommentMode ==
    [][PointerCapture => commentModeState /\ ~isPlayingRef]_vars

\* C4 (amended): a pointer event changes the slot only if the ref mirroring
\* comment mode is set and the scene is not animating at the moment of the event.
C4_GatedByCommentModeRef ==
    [][PointerCapture => commentModeStateRef /\ ~isPlayingRef]_vars

\* C4 witness: the pointer observer captured an anchor when comment mode had
\* already been switched off but not yet mirrored.
C4_Witness ==
    /\ clickedAnchorRef # NoAnchor
    /\ captureLog[clickedAnchorRef.id].via = "pointer"
    /\ "mode" \in pendingEffects
    /\ ~commentModeState

----------------------------------------------------------------------------
\* Properties of the pin resolver (SpecResolve)

\* Indices of the annotations that carry an anchor of the target scene
MatchingIndices ==
    {i \in 1..Len(allAnnotations.items) :
        /\ allAnnotations.items[i].anchor # NoAnchorData
        /\ allAnnotations.items[i].anchor.sceneId = sceneId}
MatchingIds == {allAnnotations.items[i].annotationId : i \in MatchingIndices}
PinIds == {rebuiltPins[k].annotationId : k \in 1..Len(rebuiltPins)}

\* The pins built for annotation i of the collection
PinsOf(i) ==
    {k \in 1..Len(rebuiltPins) :
        rebuiltPins[k].annotationId = allAnnotations.items[i].annotationId}

SceneIsolation ==
    /\ PinIds = MatchingIds
    /\ Len(rebuiltPins) = Cardinality(MatchingIndices)

\* C5 (as stated): for every annotation collection and target sceneId the pin
\* list holds a pin for an annotation iff the annotation carries an anchor of
\* the target scene, and there are as many pins as such annotations.
C5_SceneIsolation == SceneIsolation

\* C5 (amended): the same, for a pin list built while sceneRef.current was set.
C5_SceneIsolationWithScene == pinsScene.present => SceneIsolation

\* C5 witness: a pin list built with the scene set, from a collection that holds
\* an annotation of this scene and one of another scene.
C5_Witness ==
    /\ pinsScene.present
    /\ Len(rebuiltPins) = 1
    /\ \E i \in 1..Len(allAnnotations.items) :
         /\ allAnnotations.items[i].anchor # NoAnchorData
         /\ allAnnotations.items[i].anchor.sceneId # sceneId

\* The stored mesh identity names no mesh of scene sc
MatchesNoMesh(local, sc, objs) ==
    \A i \in 1..Len(sc.meshes) :
        /\ objs[sc.meshes[i]].id # local.meshId
        /\ sc.meshes[i] # local.meshUniqueId
        /\ objs[sc.meshes[i]].name # local.meshName

\* Annotation i is mesh-anchored and nothing resolves its mesh
Unresolvable(i) ==
    LET a == allAnnotations.items[i].anchor
    IN  /\ a.isOnMesh
        /\ a.local # NoLocal
        /\ MatchesNoMesh(a.local, pinsScene, meshObjs)
        /\ CustomResolve(resolveMesh, pinsScene, a.local) = NoMeshRef

\* C6: a mesh-anchored anchor whose mesh id, unique id and name match no mesh
\* of the active scene (and that no custom resolver resolves) gets a pin with
\* no mesh and worldStatic = anchor.world.
C6_FallbackToWorld ==
    pinsScene.present =>
        \A i \in MatchingIndices :
            Unresolvable(i) =>
                /\ PinsOf(i) # {}
                /\ \A k \in PinsOf(i) :
                     /\ rebuiltPins[k].mesh = NoMeshRef
                     /\ rebuiltPins[k].worldStatic = allAnnotations.items[i].anchor.world

\* C6 witness: such an anchor was resolved, in a scene that has meshes.
C6_Witness ==
    /\ pinsScene.present
    /\ Len(pinsScene.meshes) = 3
    /\ \E i \in MatchingIndices :
         /\ Unresolvable(i)
         /\ allAnnotations.items[i].anchor.world # NoVec
         /\ \E k \in PinsOf(i) : rebuiltPins[k].worldStatic # NoVec

\* The first non-absent mesh of a sequence of lookup results
FirstPresent(results) ==
    LET hits == {n \in 1..Len(results) : results[n] # NoMeshRef}
    IN  IF hits = {} THEN NoMeshRef ELSE results[Min(hits)]

MeshAnchored(i) ==
    /\ allAnnotations.items[i].anchor.isOnMesh
    /\ allAnnotations.items[i].anchor.local # NoLocal

\* The pins of every mesh-anchored annotation i carry the mesh Expected(i)
PinMeshesAre(Expected(_)) ==
    pinsScene.present =>
        \A i \in MatchingIndices :
            MeshAnchored(i) =>
                /\ PinsOf(i) # {}
                /\ \A k \in PinsOf(i) : rebuiltPins[k].mesh = Expected(i)

\* The four lookups, each made on its own
LookupResults(i) ==
    LET l == allAnnotations.items[i].anchor.local
    IN  << CustomResolve(resolveMesh, pinsScene, l),
           GetMeshById(pinsScene, meshObjs, l.meshId),
           GetMeshByUniqueId(pinsScene, meshObjs, l.meshUniqueId),
           GetMeshByName(pinsScene, meshObjs, l.meshName) >>

\* The same, the lookup by id being made only for a non-empty stored id
LookupResultsNonEmptyId(i) ==
    LET l == allAnnotations.items[i].anchor.local
        r == LookupResults(i)
    IN  IF l.meshId = "" THEN [r EXCEPT ![2] = NoMeshRef] ELSE r

FirstLookup(i) == FirstPresent(LookupResults(i))
FirstLookupNonEmptyId(i) == FirstPresent(LookupResultsNonEmptyId(i))

\* C7 (as stated): the pin's mesh is the first non-absent result of the custom
\* resolver, the lookup by id, by unique id and by name, in this order.
C7_ResolutionOrder == PinMeshesAre(FirstLookup)

\* C7 (amended): the same, where the lookup by id is made only when the stored
\* mesh id is a non-empty string.
C7_ResolutionOrderNonEmptyId == PinMeshesAre(FirstLookupNonEmptyId)

\* C7 witness: id, unique id and name of the anchor name three different
\* meshes and the pin carries the one found by id.
C7_Witness ==
    /\ pinsScene.present
    /\ resolveMesh = NoResolver
    /\ \E i \in MatchingIndices :
         /\ MeshAnchored(i)
         /\ LookupResults(i) = <<NoMeshRef, 1, 2, 3>>
         /\ \E k \in PinsOf(i) : rebuiltPins[k].mesh = 1

----------------------------------------------------------------------------
\* Properties of the per-frame reprojection (SpecFrame)

\* The step is a reprojection pass
FramePass == frameTick' # frameTick

\* The marker's mesh reference is set and the mesh is still in use
MeshValid(m) == m.mesh # NoMeshRef /\ ~meshObjs[m.mesh].disposed

\* The mount shows the pin at the projection of world position p
PlacedAt(el, p) ==
    LET projected == Project(p, camera, canvasSize)
    IN  IF projected.zNum >= 0 /\ projected.zNum <= projected.zDen
          THEN /\ el.display = "block"
               /\ el.pos # NoVec
               /\ el.pos.left * canvasSize.renderW = projected.x * canvasSize.rectW
               /\ el.pos.top * canvasSize.renderH = projected.y * canvasSize.rectH
          ELSE el.display = "none"

\* C8: in a reprojection pass, a pin whose resolved mesh has been disposed is
\* positioned from its static world position and not from the stale mesh (and
\* hidden if it has no static world position); a pin whose mesh is valid is
\* positioned from the mesh.
C8_DisposedMeshUsesStaticWorld ==
    [][FramePass =>
         \A k \in 1..Len(markersRef) :
            LET m == markersRef[k]
                el == mounts'[m.mountEl]
            IN  /\ MeshValid(m) =>
                      PlacedAt(el, TransformCoordinates(m.localPosition,
                                                        meshObjs[m.mesh].matrix))
                /\ (m.mesh # NoMeshRef /\ ~MeshValid(m)) =>
                      IF m.worldStatic # NoVec
                        THEN PlacedAt(el, m.worldStatic)
                        ELSE el.display = "none"
      ]_vars

\* C9: in a reprojection pass, a pin that has neither a mesh nor a static world
\* position is hidden.
C9_NoPositionIsHidden ==
    [][FramePass =>
         \A k \in 1..Len(markersRef) :
            (markersRef[k].mesh = NoMeshRef /\ markersRef[k].worldStatic = NoVec)
                => mounts'[markersRef[k].mountEl].display = "none"
      ]_vars

\* C10: after a reprojection pass, a pin with a world position is shown iff its
\* projected depth z satisfies 0 <= z <= 1, and a shown pin has
\* left = projected.x * (rect.width / renderW) and
\* top = projected.y * (rect.height / renderH); otherwise it is hidden.
C10_VisibleIffDepthInUnitRange ==
    [][FramePass =>
         \A k \in 1..Len(markersRef) :
            WorldPos(markersRef[k], meshObjs) # NoVec =>
                PlacedAt(mounts'[markersRef[k].mountEl],
                         WorldPos(markersRef[k], meshObjs))
      ]_vars

\* C10 witness: after a pass, with a canvas whose rect is half its render width,
\* one pin is shown exactly on the near plane (z = 0) at a scaled position and
\* another pin is hidden because it lies outside the depth range.
C10_Witness ==
    /\ frameTick
    /\ canvasSize.renderW = 2 * canvasSize.rectW
    /\ \E k, j \in 1..Len(markersRef) :
         LET p == WorldPos(markersRef[k], meshObjs)
             q == WorldPos(markersRef[j], meshObjs)
         IN  /\ p # NoVec
             /\ q # NoVec
             /\ Project(p, camera, canvasSize).zNum = 0
             /\ mounts[markersRef[k].mountEl].display = "block"
             /\ Project(p, camera, canvasSize).x > 0
             /\ 2 * mounts[markersRef[k].mountEl].pos.left
                    = Project(p, camera, canvasSize).x
             /\ Project(q, camera, canvasSize).zNum < 0
             /\ mounts[markersRef[j].mountEl].display = "none"

----------------------------------------------------------------------------
\* Properties of the unmount (SpecFrame)

\* The step disposes scene and engine
Disposal == sceneDisposed' /\ ~sceneDisposed

\* C11 (as stated): on unmount the projection observer is deregistered before
\* scene and engine are disposed, and no reprojection pass runs after disposal.
C11_HookRemovedBeforeDisposal ==
    [][/\ Disposal => projectionObservers = 0
       /\ FramePass => ~sceneDisposed]_vars

\* C11 (amended): on unmount the render loop is stopped in the step that
\* disposes scene and engine and never restarted, so no reprojection pass runs
\* after disposal; the projection observer is deregistered by the overlay's
\* cleanup, which runs after the disposal.
C11_LoopStoppedAtDisposal ==
    [][/\ Disposal => ~renderLoop'
       /\ sceneDisposed => ~renderLoop'
       /\ FramePass => ~sceneDisposed
       /\ projectionObservers' # projectionObservers
            => sceneDisposed /\ projectionObservers' = 0]_vars

\* C11 witness: the teardown is complete, after a reprojection pass had run.
C11_Witness ==
    /\ ~mounted
    /\ cleanups = <<>>
    /\ sceneDisposed
    /\ ~renderLoop
    /\ projectionObservers = 0
    /\ frameTick

----------------------------------------------------------------------------
\* Properties of a single pointer event (SpecPick)

\* The step notifies the observer of a pointer event; ThisEvent is that event
EventStep == lastEvent'.tick # lastEvent.tick
ThisEvent == lastEvent'.event

\* Nothing was captured and nothing delivered
NothingCaptured ==
    /\ clickedAnchorRef' = clickedAnchorRef
    /\ nextAnchorId' = nextAnchorId
    /\ delivered' = delivered

\* The observer's guards pass and every ref is set
Capturing(e) ==
    /\ e.type = "POINTERDOWN"
    /\ ~isPlayingRef
    /\ commentModeStateRef
    /\ refs.scene /\ refs.engine /\ refs.camera /\ refs.canvas

\* dot(normal, direction) and dot(normal, -origin), normal = (0, 1, 0)
RayDenom(ray) == ray.direction.y
RayNum(ray) == 0 - ray.origin.y

\* The ray is parallel to the plane (|denom| <= 1e-6) or meets it at t < 0
RayRejected(ray) ==
    \/ (RayDenom(ray) <= EpsUnits /\ RayDenom(ray) >= 0 - EpsUnits)
    \/ RayNum(ray) * RayDenom(ray) < 0

\* w = origin + t * direction with t = num / denom
OnRay(w, ray) ==
    /\ w.x * RayDenom(ray) = ray.origin.x * RayDenom(ray) + ray.direction.x * RayNum(ray)
    /\ w.y * RayDenom(ray) = ray.origin.y * RayDenom(ray) + ray.direction.y * RayNum(ray)
    /\ w.z * RayDenom(ray) = ray.origin.z * RayDenom(ray) + ray.direction.z * RayNum(ray)

\* C12: when the pick hits nothing, a ray that is parallel to the plane
\* (|dot(normal, direction)| <= 1e-6) or meets it at t < 0 produces no anchor
\* and leaves the slot unchanged; any other ray produces (in a capturing
\* state) an anchor at the intersection with isOnMesh false and no local part.
C12_PlaneFallbackRejection ==
    [][(EventStep /\ ~ThisEvent.pick.hit) =>
          /\ RayRejected(ThisEvent.pick.ray) => NothingCaptured
          /\ (~RayRejected(ThisEvent.pick.ray) /\ Capturing(ThisEvent)) =>
                /\ clickedAnchorRef' # clickedAnchorRef
                /\ clickedAnchorRef'.id = nextAnchorId
                /\ ~clickedAnchorRef'.isOnMesh
                /\ clickedAnchorRef'.local = NoLocal
                /\ OnRay(clickedAnchorRef'.world, ThisEvent.pick.ray)
      ]_vars

\* C12 witness: the last event hit nothing, its ray starts on the plane
\* (t = 0), and the slot holds the plane anchor at the ray origin.
C12_Witness ==
    /\ lastEvent.event # NoEvent
    /\ ~lastEvent.event.pick.hit
    /\ RayNum(lastEvent.event.pick.ray) = 0
    /\ clickedAnchorRef # NoAnchor
    /\ ~clickedAnchorRef.isOnMesh
    /\ clickedAnchorRef.world = lastEvent.event.pick.ray.origin

\* C13: a pointer-down handled while scene, engine, camera or canvas is absent
\* produces no anchor, delivers nothing and leaves the slot unchanged.
C13_AbortOnMissingDependency ==
    [][(EventStep /\ ~(refs.scene /\ refs.engine /\ refs.camera /\ refs.canvas))
          => NothingCaptured]_vars

\* C13 witness: a primary pointer-down that hit a mesh was handled in comment
\* mode, not animating, with engineRef unset; the slot is still empty.
C13_Witness ==
    /\ lastEvent.event # NoEvent
    /\ lastEvent.event.type = "POINTERDOWN"
    /\ lastEvent.event.pick.hit
    /\ commentModeStateRef
    /\ ~isPlayingRef
    /\ ~refs.engine
    /\ refs.canvas
    /\ clickedAnchorRef = NoAnchor

\* C14: when the picked mesh's world matrix is not invertible the capture is
\* aborted: no anchor is produced, the slot is unchanged, nothing is delivered.
C14_AbortOnSingularTransform ==
    [][(/\ EventStep
        /\ ThisEvent.pick.hit
        /\ ThisEvent.pick.pickedMesh.matrix.s = 0)
          => NothingCaptured]_vars

----------------------------------------------------------------------------
\* Scene tagging (Spec)

\* C15: every payload passed to addContext carries the sceneId under which its
\* anchor was captured.
C15_TaggedWithCaptureScene ==
    \A i \in 1..Len(delivered) :
        delivered[i].sceneId = captureLog[delivered[i].anchor.id].sceneId

----------------------------------------------------------------------------
\* Order and freshness of the pin list (SpecResolve)

\* The index in the collection of the k-th annotation with an anchor of the
\* target scene
KthMatching(k) ==
    CHOOSE i \in MatchingIndices :
        Cardinality({j \in MatchingIndices : j <= i}) = k

OnePinEachInOrder ==
    /\ Len(rebuiltPins) = Cardinality(MatchingIndices)
    /\ \A k \in 1..Len(rebuiltPins) :
         rebuiltPins[k].annotationId = allAnnotations.items[KthMatching(k)].annotationId
    /\ \A i \in MatchingIndices : Cardinality(PinsOf(i)) = 1
    /\ \A i \in (1..Len(allAnnotations.items)) \ MatchingIndices : PinsOf(i) = {}

\* C16 (as stated): the pin list holds exactly one pin per annotation of the
\* target scene that has an anchor, in the order of the annotation collection,
\* and none for the other annotations.
C16_OnePinPerAnnotationInOrder == OnePinEachInOrder

\* C16 (amended): the same, for a pin list built while sceneRef.current was set.
C16_OnePinPerAnnotationInOrderWithScene == pinsScene.present => OnePinEachInOrder

\* C16 witness: a pin list built with the scene set that holds the pins of two
\* annotations, in collection order.
C16_Witness ==
    /\ pinsScene.present
    /\ Len(allAnnotations.items) = 2
    /\ Len(rebuiltPins) = 2
    /\ rebuiltPins[1].annotationId = allAnnotations.items[1].annotationId
    /\ rebuiltPins[2].annotationId = allAnnotations.items[2].annotationId
    /\ rebuiltPins[1].annotationId # rebuiltPins[2].annotationId

\* C19: once the scene exists, the pin list is the one resolved from the
\* current annotation collection, sceneId and resolver in the current scene;
\* in particular a list built while the scene was absent has been rebuilt.
C19_PinsRebuiltOnSceneLoad ==
    scene.present =>
        rebuiltPins = RebuiltPins(Annotations(allAnnotations, sceneId), scene,
                                  meshObjs, resolveMesh)

----------------------------------------------------------------------------
\* Motion of the anchored mesh (SpecFrame)

\* C17: in every reprojection pass, whatever changes the mesh's transform went
\* through before it, a pin anchored on a mesh of the scene is placed at the
\* projection of the mesh's current world matrix applied to the stored local
\* position.
C17_TracksCurrentTransform ==
    [][FramePass =>
         \A k \in 1..Len(markersRef) :
            MeshValid(markersRef[k]) =>
                PlacedAt(mounts'[markersRef[k].mountEl],
                         TransformCoordinates(markersRef[k].localPosition,
                                              meshObjs'[markersRef[k].mesh].matrix))
      ]_vars

\* C17 witness: the mesh has been moved away from the matrix it had when the
\* scene was created, and a pin anchored on it is shown where the moved mesh
\* puts it, which is not where the unmoved mesh would.
C17_Witness ==
    \E k \in 1..Len(markersRef) :
        LET m == markersRef[k]
            now == Project(TransformCoordinates(m.localPosition, meshObjs[m.mesh].matrix),
                           camera, canvasSize)
            old == Project(TransformCoordinates(m.localPosition,
                                                ResolveMeshObjs[m.mesh].matrix),
                           camera, canvasSize)
        IN  /\ MeshValid(m)
            /\ meshObjs[m.mesh].matrix # ResolveMeshObjs[m.mesh].matrix
            /\ mounts[m.mountEl].display = "block"
            /\ mounts[m.mountEl].pos = Scaled(now, canvasSize)
            /\ mounts[m.mountEl].pos # Scaled(old, canvasSize)

----------------------------------------------------------------------------
\* Replacement of the tracked marker list (SpecFrame)

\* ms is the whole marker list of the pin list: one marker per pin, in order,
\* each with a mount of its own
CompleteFor(ms, pins) ==
    /\ Len(ms) = Len(pins)
    /\ \A k \in 1..Len(ms) :
         /\ ms[k].annotationId = pins[k].annotationId
         /\ ms[k].mesh = pins[k].mesh
         /\ ms[k].localPosition = pins[k].localPosition
         /\ ms[k].worldStatic = pins[k].worldStatic
    /\ \A j, k \in 1..Len(ms) : ms[j].mountEl = ms[k].mountEl => j = k

\* C20: a reprojection pass iterates the whole marker list of one pin list, and
\* a step that changes the tracked list replaces it by the whole list of the
\* new pins (or empties it on unmount), sharing no marker with the list before.
C20_AtomicReplacement ==
    [][/\ FramePass =>
            /\ CompleteFor(markersRef, rebuiltPins)
            /\ \A k \in 1..Len(markersRef) : mounts[markersRef[k].mountEl].attached
       /\ markersRef' # markersRef =>
            /\ \/ CompleteFor(markersRef', rebuiltPins')
               \/ (markersRef' = <<>> /\ ~mounted)
            /\ MountEls(markersRef') \cap MountEls(markersRef) = {}
      ]_vars

\* C20 witness: a list of two markers was replaced by another list of two
\* markers (on new mounts), and a pass has placed both markers of the new
\* list; the mounts of the replaced list are detached.
C20_Witness ==
    /\ Len(markersRef) = 2
    /\ CompleteFor(markersRef, rebuiltPins)
    /\ \A k \in 1..2 : mounts[markersRef[k].mountEl].display \in {"block", "none"}
    /\ Cardinality({e \in 1..MaxElements :
                       ~mounts[e].attached /\ e < markersRef[1].mountEl}) = 2

----------------------------------------------------------------------------
\* Capture, resolution and reprojection together (SpecRoundTrip)

\* The annotation marker m was built from
AnnotationOf(m) ==
    CHOOSE ann \in {allAnnotations.items[i] : i \in 1..Len(allAnnotations.items)} :
        ann.annotationId = m.annotationId

\* C18: with camera, canvas and mesh as they were at capture, a reprojection
\* pass shows the pin of a mesh-anchored capture at the anchor's captured
\* screen coordinates.
C18_RoundTripIdentity ==
    [][FramePass =>
         \A k \in 1..Len(markersRef) :
            AnnotationOf(markersRef[k]).anchor.isOnMesh =>
                /\ mounts'[markersRef[k].mountEl].display = "block"
                /\ mounts'[markersRef[k].mountEl].pos.left
                       = AnnotationOf(markersRef[k]).anchor.screen.x
                /\ mounts'[markersRef[k].mountEl].pos.top
                       = AnnotationOf(markersRef[k]).anchor.screen.y
      ]_vars

----------------------------------------------------------------------------
\* Ownership of the mount elements (SpecFrame)

\* The mount elements that are children of the canvas wrapper
AttachedMounts == {e \in 1..MaxElements : mounts[e].attached}

\* C21: the mount elements attached to the wrapper are exactly the mounts of
\* the tracked markers, after every rebuild (to and from the empty list
\* included) and after unmount.
C21_AttachedAreTracked == AttachedMounts = MountEls(markersRef)

\* C21 witness: a list of two markers was replaced by a list of one marker;
\* the two mounts of the replaced list are detached, the new one is attached.
C21_Witness ==
    /\ Len(markersRef) = 1
    /\ markersRef[1].mountEl = 3
    /\ AttachedMounts = {3}

----------------------------------------------------------------------------
\* Position source of a pin (SpecResolve)

\* C22: a pin built from an anchor that has a world position has a static
\* world position iff no mesh was resolved for it: exactly one of the two is
\* the position source, and a resolved mesh takes precedence.
C22_ExactlyOnePositionSource ==
    \A i \in MatchingIndices :
        allAnnotations.items[i].anchor.world # NoVec =>
            \A k \in PinsOf(i) :
                (rebuiltPins[k].worldStatic # NoVec) <=> (rebuiltPins[k].mesh = NoMeshRef)

\* C22 witness: two anchors with a world position were resolved, one to a mesh
\* (no static position), the other to no mesh (static position = anchor.world).
C22_Witness ==
    \E i, j \in MatchingIndices :
        /\ allAnnotations.items[i].anchor.world # NoVec
        /\ allAnnotations.items[j].anchor.world # NoVec
        /\ \E k \in PinsOf(i) :
             /\ rebuiltPins[k].mesh # NoMeshRef
             /\ rebuiltPins[k].worldStatic = NoVec
        /\ \E k \in PinsOf(j) :
             /\ rebuiltPins[k].mesh = NoMeshRef
             /\ rebuiltPins[k].worldStatic = allAnnotations.items[j].anchor.world

----------------------------------------------------------------------------
\* Anchors that are not on a mesh (SpecResolve)

\* C23: the pin of an anchor with isOnMesh false has worldStatic = anchor.world
\* and no mesh; no lookup is made for it, whatever meshes the scene holds,
\* whatever mesh identity the anchor stores and whatever the custom resolver
\* would return.
C23_OffMeshUsesWorld ==
    \A i \in MatchingIndices :
        ~allAnnotations.items[i].anchor.isOnMesh =>
            \A k \in PinsOf(i) :
                /\ rebuiltPins[k].mesh = NoMeshRef
                /\ rebuiltPins[k].worldStatic = allAnnotations.items[i].anchor.world

\* C23 witness: an anchor with isOnMesh false that stores the identity of a
\* mesh of the scene was resolved, with a custom resolver that returns a mesh,
\* in a scene of three meshes; its pin has no mesh and the anchor's world.
C23_Witness ==
    /\ pinsScene.present
    /\ Len(pinsScene.meshes) = 3
    /\ resolveMesh # NoResolver
    /\ resolveMesh.result # NoMeshRef
    /\ \E i \in MatchingIndices :
         LET a == allAnnotations.items[i].anchor
         IN  /\ ~a.isOnMesh
             /\ a.local # NoLocal
             /\ GetMeshById(pinsScene, meshObjs, a.local.meshId) # NoMeshRef
             /\ a.world # NoVec
             /\ \E k \in PinsOf(i) :
                  /\ rebuiltPins[k].mesh = NoMeshRef
                  /\ rebuiltPins[k].worldStatic = a.world

----------------------------------------------------------------------------
\* Identity of the pins (SpecResolve)

StoreIds == {allAnnotations.items[i].annotationId : i \in 1..Len(allAnnotations.items)}

StoreIdsUnique ==
    \A i, j \in 1..Len(allAnnotations.items) :
        allAnnotations.items[i].annotationId = allAnnotations.items[j].annotationId
            => i = j

----------------------------------------------------------------------------
\* Repeated reprojection passes (SpecFrame)

\* C25: a reprojection pass leaves the tracked marker list as it is, and a
\* second pass with the same camera, canvas, mesh matrices and tracked list
\* leaves every mount element as the first pass left it.
C25_PassIsIdempotent ==
    [][FramePass =>
         /\ markersRef' = markersRef
         /\ MountsAfterPass(markersRef', mounts', meshObjs', camera', canvasSize') = mounts'
      ]_vars

\* C25 witness: an even number of passes has run, the last ones over a list
\* with a shown and a hidden pin, and one more pass would change nothing.
C25_Witness ==
    /\ ~frameTick
    /\ renderLoop
    /\ \E j, k \in 1..Len(markersRef) :
         /\ mounts[markersRef[j].mountEl].display = "block"
         /\ mounts[markersRef[j].mountEl].pos.left > 0
         /\ mounts[markersRef[k].mountEl].display = "none"
    /\ MountsAfterPass(markersRef, mounts, meshObjs, camera, canvasSize) = mounts

----------------------------------------------------------------------------
\* Registration of the observers (SpecObservers)

\* C26: at any time at most one pointer observer and at most one per-frame
\* observer of the hook instance are registered, whatever re-runs of the
\* attaching effects the changes of ready, handler, sceneId and comment mode
\* cause, and none is registered once the unmount cleanups have run.
C26_AtMostOneObserver ==
    /\ pointerObservers <= 1
    /\ projectionObservers <= 1
    /\ (~mounted /\ cleanups = <<>>) =>
          (pointerObservers = 0 /\ projectionObservers = 0)

\* C26 witness: the hook whose pointer-observer effect depends on the handler
\* was unmounted after the scene was created, a handler arrived and a second
\* render changed the handler or the sceneId.
C26_Witness ==
    /\ hook = "useVeltBabylonComments"
    /\ ready
    /\ renders >= 2
    /\ handlerGen >= 1
    /\ ~mounted
    /\ cleanups = <<>>
    /\ sceneDisposed
    /\ pointerObservers = 0
    /\ projectionObservers = 0

----------------------------------------------------------------------------
\* Event type and button (SpecButtons)

\* C27: a pointer event that is not a pointer-down of the primary button
\* (another event type, or a pointer-down of another button) produces no
\* anchor and leaves the slot unchanged.
C27_OnlyPrimaryPointerDown ==
    [][(EventStep /\ (ThisEvent.type # "POINTERDOWN" \/ ThisEvent.button # 0))
          => NothingCaptured]_vars

====
